---- MODULE Spec2Model ----
(***************************************************************************)
(* Model of libsmc (src/src/smc.c): the type conversion helpers, the       *)
(* two-phase get-key-info / read-key / write-key transactions over the     *)
(* AppleSMC connection, and the public sensor and fan functions.           *)
(*                                                                         *)
(* kern_return_t is a signed 32 bit int, so the I/O Kit codes are written  *)
(* as the negative numbers they are.  unsigned int and uint32_t values     *)
(* stay below 2^31 in every input enumerated here (keys are 7 bit ASCII,   *)
(* rpm values are bounded by MaxVal), so no 32 bit wrap can happen.        *)
(* Temperatures (double) are carried in hundredths of a degree.            *)
(***************************************************************************)
EXTENDS Integers, Sequences, FiniteSets, TLC

----------------------------------------------------------------------------
(* Program constants                                                       *)

kIOReturnSuccess == 0
kIOReturnNotPrivileged == -536870207
kIOReturnBadArgument == -536870206

kSMCSuccess == 0
kSMCKeyNotFound == 132

kSMCReadKey == 5
kSMCWriteKey == 6
kSMCGetKeyInfo == 9

SMC_KEY_SIZE == 4
DATA_TYPE_SIZE == 4
BYTES_SIZE == 32

DATA_TYPE_UINT8 == <<117, 105, 56, 32>>
DATA_TYPE_FPE2 == <<102, 112, 101, 50>>
DATA_TYPE_SP78 == <<115, 112, 55, 56>>

----------------------------------------------------------------------------
(* Bounds                                                                  *)

\* largest value handed to to_fpe2 in the codec specification
MaxVal == 33000

----------------------------------------------------------------------------
(* C integer helpers                                                       *)

RECURSIVE Pow2(_)
Pow2(n) == IF n = 0 THEN 1 ELSE 2 * Pow2(n - 1)

\* a ^ b on non-negative integers
RECURSIVE BitXor(_, _)
BitXor(a, b) ==
    IF a = 0 THEN b
    ELSE IF b = 0 THEN a
    ELSE (((a % 2) + (b % 2)) % 2) + (2 * BitXor(a \div 2, b \div 2))

\* conversion to uint8_t
ToUint8(x) == x % 256

\* conversion of a byte value to (signed) char
ToChar(b) == IF b > 127 THEN b - 256 ELSE b

\* the C string held in a char array: the characters before the first NUL
RECURSIVE CStr(_)
CStr(s) == IF s = << >> \/ Head(s) = 0 THEN << >> ELSE <<Head(s)>> \o CStr(Tail(s))

\* strcmp(a, b) == 0
StrEq(a, b) == CStr(a) = CStr(b)

ZeroBytes == [i \in 1..BYTES_SIZE |-> 0]

----------------------------------------------------------------------------
(* HELPERS - TYPE CONVERSION                                               *)

\* from_fpe2 with the first byte shifted by a whole byte
from_fpe2_Shift8(data) == (data[1] * Pow2(8)) + (data[2] * Pow2(2))

from_fpe2(data) == (data[1] * Pow2(6)) + (data[2] * Pow2(2))

\* to_fpe2 without the truncation of val >> 6 to a byte
to_fpe2_Wide(val, data) ==
    LET d0 == val \div Pow2(6)
        d1 == ToUint8(BitXor(val * Pow2(2), d0 * Pow2(8)))
    IN  [data EXCEPT ![1] = d0, ![2] = d1]

to_fpe2(val, data) ==
    LET d0 == ToUint8(val \div Pow2(6))
        d1 == ToUint8(BitXor(val * Pow2(2), d0 * Pow2(8)))
    IN  [data EXCEPT ![1] = d0, ![2] = d1]

RECURSIVE PackLoop(_, _, _, _)
PackLoop(key, i, shift, ans) ==
    IF i > SMC_KEY_SIZE THEN ans
    ELSE PackLoop(key, i + 1, shift - 8, ans + (key[i] * Pow2(shift)))

to_uint32_t(key) ==
    IF Len(key) # SMC_KEY_SIZE THEN 0 ELSE PackLoop(key, 1, 24, 0)

\* to_string filling the characters from the least significant byte up
to_string_LittleEndian(val) ==
    [i \in 1..DATA_TYPE_SIZE |-> ToChar((val \div Pow2(8 * (i - 1))) % 256)]

to_string(val) ==
    [i \in 1..DATA_TYPE_SIZE |-> ToChar((val \div Pow2(24 - (8 * (i - 1)))) % 256)]

----------------------------------------------------------------------------
(* HELPERS - TMP CONVERSION (hundredths of a degree)                       *)

to_fahrenheit(tmp) == ((tmp * 18) \div 10) + 3200

\* Celsius to Kelvin with the offset cut to whole degrees
to_kelvin_Whole(tmp) == tmp + 27300

to_kelvin(tmp) == tmp + 27315

----------------------------------------------------------------------------
(* State                                                                   *)

VARIABLES
    active,        \* the callers that use the connection
    smcFrames,     \* the response frames the driver can hand back
    pc,            \* per caller: "idle", "info", "data" or "done"
    fn,            \* per caller: the public function being executed
    arg,           \* per caller: its arguments
    inputStruct,   \* per caller: SMCParamStruct sent to the SMC
    outputStruct,  \* per caller: SMCParamStruct holding the SMC's response
    result,        \* per caller: kern_return_t of read_smc / write_smc
    result_smc,    \* per caller: smc_return_t
    reqs,          \* per caller: request frames passed to call_smc so far
    resps,         \* per caller: (return code, response frame) of each call
    ret,           \* per caller: value returned by the public function
    printed,       \* per caller: the invalid key size error was printed
    fpe2,          \* fpe2 codec run: step, val, data, ans
    keyc           \* key codec run: step, key, packed, str, repacked

vars == <<active, smcFrames, pc, fn, arg, inputStruct, outputStruct, result, result_smc,
          reqs, resps, ret, printed, fpe2, keyc>>

txnVars == <<active, smcFrames, pc, fn, arg, inputStruct, outputStruct, result,
             result_smc, reqs, resps, ret, printed>>

Callers == {1, 2}

\* memset(&s, 0, sizeof(SMCParamStruct))
ZeroParam == [key |-> 0, dataSize |-> 0, dataType |-> 0, result |-> 0,
              data8 |-> 0, bytes |-> ZeroBytes]

\* memset(&r, 0, sizeof(smc_return_t))
ZeroReturn == [data |-> ZeroBytes, dataType |-> <<0, 0, 0, 0>>,
               dataSize |-> 0, kSMC |-> 0]

NoArg == [key |-> << >>, unit |-> "CELSIUS", fan_num |-> 0, rpm |-> 0,
          auth |-> FALSE]

----------------------------------------------------------------------------
(* Inputs and the SMC's answers                                            *)

\* caller supplied keys: TC0D, FNum, TC0 (3 chars), TC0DX (5 chars)
Keys == {<<84, 67, 48, 68>>, <<70, 78, 117, 109>>, <<84, 67, 48>>,
         <<84, 67, 48, 68, 88>>}

KEY_FNUM == <<70, 78, 117, 109>>
KEY_F0AC == <<70, 48, 65, 99>>
KEY_F0MN == <<70, 48, 77, 110>>

Units == {"CELSIUS", "FAHRENHEIT", "KELVIN"}

Rpms == {0, 1000, 2500}

FanNums == {0, 1}

\* raw return codes of IOConnectCallStructMethod
ChannelResults == {kIOReturnSuccess, kIOReturnNotPrivileged}

Payloads == {[ZeroBytes EXCEPT ![1] = 16],
             [ZeroBytes EXCEPT ![1] = 50, ![2] = 128],
             [ZeroBytes EXCEPT ![1] = 200, ![2] = 3, ![3] = 7]}

\* the response frames of the one-caller specification
Frames == [key : {0}, data8 : {0},
           result : {kSMCSuccess, kSMCKeyNotFound},
           dataSize : {1, 2, 4},
           dataType : {to_uint32_t(DATA_TYPE_UINT8), to_uint32_t(DATA_TYPE_FPE2),
                       to_uint32_t(DATA_TYPE_SP78)},
           bytes : Payloads]

----------------------------------------------------------------------------
(* "PRIVATE" FUNCTIONS                                                     *)

\* err_get_code(err): the low 14 bits of the return code
err_get_code(err) == err % 16384

\* call_smc: the driver's raw return code, normalised when it is an error
call_smc(raw) == IF raw # kIOReturnSuccess THEN err_get_code(raw) ELSE raw

\* what the driver may leave in the output struct of caller c
Responses(c, raw) ==
    IF raw = kIOReturnSuccess THEN smcFrames ELSE smcFrames \cup {outputStruct[c]}

\* the get key info test with && written for ||
ReadInfoFailed_And(r, out) == r # kIOReturnSuccess /\ out.result # kSMCSuccess

\* read_smc: the test after the get key info call
ReadInfoFailed(r, out) == r # kIOReturnSuccess \/ out.result # kSMCSuccess

\* the read key test looking at the I/O Kit return code only
ReadDataFailed_NoKSMC(r, out) == r # kIOReturnSuccess

\* read_smc: the test after the read key call
ReadDataFailed(r, out) == r # kIOReturnSuccess \/ out.result # kSMCSuccess

\* the get key info test of write_smc looking at the return code only
WriteInfoFailed_NoKSMC(r, out) == r # kIOReturnSuccess

\* write_smc: the test after the get key info call
WriteInfoFailed(r, out) == r # kIOReturnSuccess \/ out.result # kSMCSuccess

\* the size check rejecting only a value larger than the key's size
WriteSizeMismatch_OnlyLarger(rs, out) == rs.dataSize > out.dataSize

\* write_smc: "Check data is correct"
WriteSizeMismatch(rs, out) == rs.dataSize # out.dataSize

\* read_smc: the request of the first call
ReadInfoRequest(key) ==
    [ZeroParam EXCEPT !.key = to_uint32_t(key), !.data8 = kSMCGetKeyInfo]

\* the second request without the size reported by the SMC
ReadDataRequest_NoSize(in, out) == [in EXCEPT !.data8 = kSMCReadKey]

\* read_smc: the request of the second call
ReadDataRequest(in, out) ==
    [in EXCEPT !.dataSize = out.dataSize, !.data8 = kSMCReadKey]

\* write_smc: the request of the first call
WriteInfoRequest(key) ==
    [ZeroParam EXCEPT !.key = to_uint32_t(key), !.data8 = kSMCGetKeyInfo]

\* write_smc: the request of the second call; the data to write is copied
\* into outputStruct.bytes, inputStruct.bytes stays as memset left it
WriteDataRequest(in, out, rs) ==
    [in EXCEPT !.data8 = kSMCWriteKey, !.dataSize = out.dataSize]

WriteDataOutput(out, rs) == [out EXCEPT !.bytes = rs.data]

----------------------------------------------------------------------------
(* "PUBLIC" FUNCTIONS: what each makes of read_smc's / write_smc's outcome *)

\* is_key_valid looking at the I/O Kit return code only
is_key_valid_NoKSMC(r, rs) == r = kIOReturnSuccess

is_key_valid(r, rs) == r = kIOReturnSuccess /\ rs.kSMC = kSMCSuccess

get_tmp(r, rs, unit) ==
    IF ~(r = kIOReturnSuccess /\ rs.dataSize = 2
         /\ StrEq(rs.dataType, DATA_TYPE_SP78))
    THEN 0
    ELSE LET tmp == rs.data[1] * 100
         IN  CASE unit = "CELSIUS" -> tmp
               [] unit = "FAHRENHEIT" -> to_fahrenheit(tmp)
               [] unit = "KELVIN" -> to_kelvin(tmp)

get_num_fans(r, rs) ==
    IF ~(r = kIOReturnSuccess /\ rs.dataSize = 1
         /\ StrEq(rs.dataType, DATA_TYPE_UINT8))
    THEN -1
    ELSE rs.data[1]

get_fan_rpm(r, rs) ==
    IF ~(r = kIOReturnSuccess /\ rs.dataSize = 2
         /\ StrEq(rs.dataType, DATA_TYPE_FPE2))
    THEN 0
    ELSE from_fpe2(rs.data)

\* set_fan_min_rpm looking at the I/O Kit return code only
set_fan_min_rpm_NoKSMC(r, rs) == r = kIOReturnSuccess

set_fan_min_rpm(r, rs) == r = kIOReturnSuccess /\ rs.kSMC = kSMCSuccess

\* the smc_return_t set_fan_min_rpm hands to write_smc
FanMinValue(rpm) ==
    [ZeroReturn EXCEPT !.dataSize = 2, !.data = to_fpe2(rpm, ZeroBytes)]

ReadFns == {"is_key_valid", "get_tmp", "get_num_fans", "get_fan_rpm"}

\* the value the public function f returns once its transaction returned r
PublicReturn(f, a, r, rs) ==
    CASE f = "is_key_valid" -> is_key_valid(r, rs)
      [] f = "get_tmp" -> get_tmp(r, rs, a.unit)
      [] f = "get_num_fans" -> get_num_fans(r, rs)
      [] f = "get_fan_rpm" -> get_fan_rpm(r, rs)
      [] f = "set_fan_min_rpm" -> set_fan_min_rpm(r, rs)

----------------------------------------------------------------------------
(* Transactions                                                            *)

\* read_smc up to its first call_smc
BeginRead(c, f, a) ==
    /\ fn' = [fn EXCEPT ![c] = f]
    /\ arg' = [arg EXCEPT ![c] = a]
    /\ inputStruct' = [inputStruct EXCEPT ![c] = ReadInfoRequest(a.key)]
    /\ outputStruct' = [outputStruct EXCEPT ![c] = ZeroParam]
    /\ result_smc' = [result_smc EXCEPT ![c] = ZeroReturn]
    /\ reqs' = [reqs EXCEPT ![c] = <<ReadInfoRequest(a.key)>>]
    /\ pc' = [pc EXCEPT ![c] = "info"]
    /\ UNCHANGED <<active, smcFrames, result, resps, ret, printed, fpe2, keyc>>

\* write_smc up to its first call_smc
BeginWrite(c, f, a, rs) ==
    /\ fn' = [fn EXCEPT ![c] = f]
    /\ arg' = [arg EXCEPT ![c] = a]
    /\ inputStruct' = [inputStruct EXCEPT ![c] = WriteInfoRequest(a.key)]
    /\ outputStruct' = [outputStruct EXCEPT ![c] = ZeroParam]
    /\ result_smc' = [result_smc EXCEPT ![c] = rs]
    /\ reqs' = [reqs EXCEPT ![c] = <<WriteInfoRequest(a.key)>>]
    /\ pc' = [pc EXCEPT ![c] = "info"]
    /\ UNCHANGED <<active, smcFrames, result, resps, ret, printed, fpe2, keyc>>

\* read_smc / write_smc returns r and the public function returns
Finish(c, r, rs) ==
    /\ result' = [result EXCEPT ![c] = r]
    /\ result_smc' = [result_smc EXCEPT ![c] = rs]
    /\ ret' = [ret EXCEPT ![c] = PublicReturn(fn[c], arg[c], r, rs)]
    /\ pc' = [pc EXCEPT ![c] = "done"]

Call_is_key_valid(c, key) ==
    /\ c \in active /\ pc[c] = "idle"
    /\ IF Len(key) # SMC_KEY_SIZE
       THEN /\ fn' = [fn EXCEPT ![c] = "is_key_valid"]
            /\ arg' = [arg EXCEPT ![c] = [NoArg EXCEPT !.key = key]]
            /\ printed' = [printed EXCEPT ![c] = TRUE]
            /\ ret' = [ret EXCEPT ![c] = FALSE]
            /\ pc' = [pc EXCEPT ![c] = "done"]
            /\ UNCHANGED <<active, smcFrames, inputStruct, outputStruct, result,
                           result_smc, reqs, resps, fpe2, keyc>>
       ELSE BeginRead(c, "is_key_valid", [NoArg EXCEPT !.key = key])

Call_get_tmp(c, key, unit) ==
    /\ c \in active /\ pc[c] = "idle"
    /\ BeginRead(c, "get_tmp", [NoArg EXCEPT !.key = key, !.unit = unit])

Call_get_num_fans(c) ==
    /\ c \in active /\ pc[c] = "idle"
    /\ BeginRead(c, "get_num_fans", [NoArg EXCEPT !.key = KEY_FNUM])

\* get_fan_rpm reading the key of the fan it was asked for
Call_get_fan_rpm_PerFan(c, fan_num) ==
    /\ c \in active /\ pc[c] = "idle"
    /\ BeginRead(c, "get_fan_rpm",
                 [NoArg EXCEPT !.key = <<70, 48 + fan_num, 65, 99>>,
                               !.fan_num = fan_num])

Call_get_fan_rpm(c, fan_num) ==
    /\ c \in active /\ pc[c] = "idle"
    /\ BeginRead(c, "get_fan_rpm",
                 [NoArg EXCEPT !.key = KEY_F0AC, !.fan_num = fan_num])

Call_set_fan_min_rpm(c, fan_num, rpm, auth) ==
    /\ c \in active /\ pc[c] = "idle"
    /\ BeginWrite(c, "set_fan_min_rpm",
                  [NoArg EXCEPT !.key = KEY_F0MN, !.fan_num = fan_num,
                                !.rpm = rpm, !.auth = auth],
                  FanMinValue(rpm))

\* read_smc: the get key info call returns
ReadInfoReturn(c) ==
    /\ c \in active /\ pc[c] = "info" /\ fn[c] \in ReadFns
    /\ \E raw \in ChannelResults : \E out \in Responses(c, raw) :
         LET r == call_smc(raw)
             rs1 == [result_smc[c] EXCEPT !.kSMC = out.result]
             rs2 == [rs1 EXCEPT !.dataSize = out.dataSize,
                                !.dataType = to_string(out.dataType)]
             in2 == ReadDataRequest(inputStruct[c], out)
         IN  /\ outputStruct' = [outputStruct EXCEPT ![c] = out]
             /\ resps' = [resps EXCEPT ![c] = Append(@, [result |-> r, out |-> out])]
             /\ IF ReadInfoFailed(r, out)
                THEN /\ Finish(c, r, rs1)
                     /\ UNCHANGED <<inputStruct, reqs>>
                ELSE /\ result' = [result EXCEPT ![c] = r]
                     /\ result_smc' = [result_smc EXCEPT ![c] = rs2]
                     /\ inputStruct' = [inputStruct EXCEPT ![c] = in2]
                     /\ reqs' = [reqs EXCEPT ![c] = Append(@, in2)]
                     /\ pc' = [pc EXCEPT ![c] = "data"]
                     /\ UNCHANGED ret
    /\ UNCHANGED <<active, smcFrames, fn, arg, printed, fpe2, keyc>>

\* read_smc: the read key call returns
ReadDataReturn(c) ==
    /\ c \in active /\ pc[c] = "data" /\ fn[c] \in ReadFns
    /\ \E raw \in ChannelResults : \E out \in Responses(c, raw) :
         LET r == call_smc(raw)
             rs1 == [result_smc[c] EXCEPT !.kSMC = out.result]
             rs2 == [rs1 EXCEPT !.data = out.bytes]
         IN  /\ outputStruct' = [outputStruct EXCEPT ![c] = out]
             /\ resps' = [resps EXCEPT ![c] = Append(@, [result |-> r, out |-> out])]
             /\ IF ReadDataFailed(r, out)
                THEN Finish(c, r, rs1)
                ELSE Finish(c, r, rs2)
    /\ UNCHANGED <<active, smcFrames, fn, arg, inputStruct, reqs, printed, fpe2, keyc>>

\* write_smc: the get key info call returns
WriteInfoReturn(c) ==
    /\ c \in active /\ pc[c] = "info" /\ fn[c] \notin ReadFns
    /\ \E raw \in ChannelResults : \E out \in Responses(c, raw) :
         LET r == call_smc(raw)
             rs1 == [result_smc[c] EXCEPT !.kSMC = out.result]
             in2 == WriteDataRequest(inputStruct[c], out, rs1)
         IN  /\ resps' = [resps EXCEPT ![c] = Append(@, [result |-> r, out |-> out])]
             /\ IF WriteInfoFailed(r, out)
                THEN /\ Finish(c, r, rs1)
                     /\ outputStruct' = [outputStruct EXCEPT ![c] = out]
                     /\ UNCHANGED <<inputStruct, reqs>>
                ELSE IF WriteSizeMismatch(rs1, out)
                THEN /\ Finish(c, kIOReturnBadArgument, rs1)
                     /\ outputStruct' = [outputStruct EXCEPT ![c] = out]
                     /\ UNCHANGED <<inputStruct, reqs>>
                ELSE /\ result' = [result EXCEPT ![c] = r]
                     /\ result_smc' = [result_smc EXCEPT ![c] = rs1]
                     /\ inputStruct' = [inputStruct EXCEPT ![c] = in2]
                     /\ outputStruct' = [outputStruct EXCEPT
                                           ![c] = WriteDataOutput(out, rs1)]
                     /\ reqs' = [reqs EXCEPT ![c] = Append(@, in2)]
                     /\ pc' = [pc EXCEPT ![c] = "data"]
                     /\ UNCHANGED ret
    /\ UNCHANGED <<active, smcFrames, fn, arg, printed, fpe2, keyc>>

\* write_smc: the write key call returns
WriteDataReturn(c) ==
    /\ c \in active /\ pc[c] = "data" /\ fn[c] \notin ReadFns
    /\ \E raw \in ChannelResults : \E out \in Responses(c, raw) :
         LET r == call_smc(raw)
             rs1 == [result_smc[c] EXCEPT !.kSMC = out.result]
         IN  /\ outputStruct' = [outputStruct EXCEPT ![c] = out]
             /\ resps' = [resps EXCEPT ![c] = Append(@, [result |-> r, out |-> out])]
             /\ Finish(c, r, rs1)
    /\ UNCHANGED <<active, smcFrames, fn, arg, inputStruct, reqs, printed, fpe2, keyc>>

\* the caller takes the returned value; the locals of the call are gone
Return(c) ==
    /\ c \in active /\ pc[c] = "done"
    /\ pc' = [pc EXCEPT ![c] = "idle"]
    /\ fn' = [fn EXCEPT ![c] = "none"]
    /\ arg' = [arg EXCEPT ![c] = NoArg]
    /\ inputStruct' = [inputStruct EXCEPT ![c] = ZeroParam]
    /\ outputStruct' = [outputStruct EXCEPT ![c] = ZeroParam]
    /\ result' = [result EXCEPT ![c] = 0]
    /\ result_smc' = [result_smc EXCEPT ![c] = ZeroReturn]
    /\ reqs' = [reqs EXCEPT ![c] = << >>]
    /\ resps' = [resps EXCEPT ![c] = << >>]
    /\ ret' = [ret EXCEPT ![c] = 0]
    /\ printed' = [printed EXCEPT ![c] = FALSE]
    /\ UNCHANGED <<active, smcFrames, fpe2, keyc>>

----------------------------------------------------------------------------
(* Codec runs                                                              *)

NoFpe2 == [step |-> "off", val |-> 0, data |-> ZeroBytes, ans |-> 0]

NoKey == [step |-> "off", key |-> << >>, packed |-> 0, str |-> << >>,
          repacked |-> 0]

\* to_fpe2(val, data) on a zeroed data array
Encode ==
    /\ fpe2.step = "in"
    /\ fpe2' = [fpe2 EXCEPT !.step = "encoded",
                            !.data = to_fpe2(fpe2.val, ZeroBytes)]
    /\ UNCHANGED <<txnVars, keyc>>

\* from_fpe2(data) on the encoded bytes
Decode ==
    /\ fpe2.step = "encoded"
    /\ fpe2' = [fpe2 EXCEPT !.step = "decoded", !.ans = from_fpe2(fpe2.data)]
    /\ UNCHANGED <<txnVars, keyc>>

\* to_uint32_t(key)
Pack ==
    /\ keyc.step = "in"
    /\ keyc' = [keyc EXCEPT !.step = "packed", !.packed = to_uint32_t(keyc.key)]
    /\ UNCHANGED <<txnVars, fpe2>>

\* to_string(val, dataType) into a zeroed char array
Unpack ==
    /\ keyc.step = "packed"
    /\ keyc' = [keyc EXCEPT !.step = "unpacked", !.str = to_string(keyc.packed)]
    /\ UNCHANGED <<txnVars, fpe2>>

\* to_uint32_t of the string to_string produced
Repack ==
    /\ keyc.step = "unpacked"
    /\ keyc' = [keyc EXCEPT !.step = "repacked",
                            !.repacked = to_uint32_t(CStr(keyc.str))]
    /\ UNCHANGED <<txnVars, fpe2>>

----------------------------------------------------------------------------
(* Specifications                                                          *)

TxnInit(act) ==
    /\ active = act
    /\ pc = [c \in Callers |-> "idle"]
    /\ fn = [c \in Callers |-> "none"]
    /\ arg = [c \in Callers |-> NoArg]
    /\ inputStruct = [c \in Callers |-> ZeroParam]
    /\ outputStruct = [c \in Callers |-> ZeroParam]
    /\ result = [c \in Callers |-> 0]
    /\ result_smc = [c \in Callers |-> ZeroReturn]
    /\ reqs = [c \in Callers |-> << >>]
    /\ resps = [c \in Callers |-> << >>]
    /\ ret = [c \in Callers |-> 0]
    /\ printed = [c \in Callers |-> FALSE]

\* one caller using the connection
Init ==
    /\ TxnInit({1})
    /\ smcFrames = Frames
    /\ fpe2 = NoFpe2
    /\ keyc = NoKey

Next ==
    \E c \in Callers :
        \/ \E key \in Keys : Call_is_key_valid(c, key)
        \/ \E key \in Keys : \E unit \in Units : Call_get_tmp(c, key, unit)
        \/ Call_get_num_fans(c)
        \/ \E fan_num \in FanNums : Call_get_fan_rpm(c, fan_num)
        \/ \E fan_num \in FanNums : \E rpm \in Rpms : \E auth \in BOOLEAN :
              Call_set_fan_min_rpm(c, fan_num, rpm, auth)
        \/ ReadInfoReturn(c)
        \/ ReadDataReturn(c)
        \/ WriteInfoReturn(c)
        \/ WriteDataReturn(c)
        \/ Return(c)

Spec == Init /\ [][Next]_vars

\* the response frames of the two-caller specification
PairFrames == [key : {0}, data8 : {0},
               result : {kSMCSuccess, kSMCKeyNotFound},
               dataSize : {2},
               dataType : {to_uint32_t(DATA_TYPE_FPE2)},
               bytes : {[ZeroBytes EXCEPT ![1] = 16]}]

\* two callers using the connection, nothing ordering their calls
InitTwo ==
    /\ TxnInit(Callers)
    /\ smcFrames = PairFrames
    /\ fpe2 = NoFpe2
    /\ keyc = NoKey

SpecTwo == InitTwo /\ [][Next]_vars

\* every transport call made by caller 1 returns
CallsReturn ==
    /\ WF_vars(ReadInfoReturn(1))
    /\ WF_vars(ReadDataReturn(1))
    /\ WF_vars(WriteInfoReturn(1))
    /\ WF_vars(WriteDataReturn(1))

SpecLive == Init /\ [][Next]_vars /\ CallsReturn

\* the fpe2 codec applied to every value up to MaxVal
InitFpe2 ==
    /\ TxnInit({})
    /\ smcFrames = Frames
    /\ fpe2 \in [step : {"in"}, val : 0..MaxVal, data : {ZeroBytes}, ans : {0}]
    /\ keyc = NoKey

NextFpe2 == Encode \/ Decode

SpecFpe2 == InitFpe2 /\ [][NextFpe2]_vars

\* characters of the keys the key codec is applied to
KeyChars == {32, 48, 70, 97, 126}

CodecKeys ==
    {<<a, b, c, d>> : a \in KeyChars, b \in KeyChars, c \in KeyChars, d \in KeyChars}
    \cup {<<a, b, c>> : a \in KeyChars, b \in KeyChars, c \in KeyChars}
    \cup {<<a, b, c, d, 88>> : a \in {70}, b \in KeyChars, c \in KeyChars, d \in KeyChars}

InitKey ==
    /\ TxnInit({})
    /\ smcFrames = Frames
    /\ fpe2 = NoFpe2
    /\ keyc \in [step : {"in"}, key : CodecKeys, packed : {0}, str : {<< >>},
                 repacked : {0}]

NextKey == Pack \/ Unpack \/ Repack

SpecKey == InitKey /\ [][NextKey]_vars

----------------------------------------------------------------------------
(* Properties                                                              *)

\* call i of caller c's transaction returned success at both layers
CallOk(c, i) ==
    /\ i <= Len(resps[c])
    /\ resps[c][i].result = kIOReturnSuccess
    /\ resps[c][i].out.result = kSMCSuccess

\* call i of caller c's transaction has returned with a failure at a layer
CallFailed(c, i) ==
    /\ i <= Len(resps[c])
    /\ (resps[c][i].result # kIOReturnSuccess
        \/ resps[c][i].out.result # kSMCSuccess)

IsDataCall(req) == req.data8 \in {kSMCReadKey, kSMCWriteKey}

\* C1: in a read or write transaction a read-key or write-key call is issued
\* only after a get-key-info call of the same transaction returned success
\* at both layers, and a failed metadata phase means no data-phase call.
C1_MetadataGatesData ==
    \A c \in Callers :
        /\ \A i \in 1..Len(reqs[c]) :
              IsDataCall(reqs[c][i]) =>
                  \E j \in 1..(i - 1) :
                      reqs[c][j].data8 = kSMCGetKeyInfo /\ CallOk(c, j)
        /\ CallFailed(c, 1) => \A i \in 1..Len(reqs[c]) : ~IsDataCall(reqs[c][i])

C1_Witness ==
    \E c \in Callers :
        /\ fn[c] = "set_fan_min_rpm"
        /\ Len(reqs[c]) = 2
        /\ reqs[c][2].data8 = kSMCWriteKey
        /\ CallOk(c, 1)

\* C2: a write whose metadata phase succeeded and whose caller-supplied
\* dataSize differs from the reported one returns kIOReturnBadArgument
\* after exactly one transport call, and no write-key call is issued.
C2_SizeMismatchIsBadArgument ==
    \A c \in Callers :
        (/\ fn[c] = "set_fan_min_rpm"
         /\ CallOk(c, 1)
         /\ result_smc[c].dataSize # resps[c][1].out.dataSize)
        => /\ pc[c] = "done"
           /\ result[c] = kIOReturnBadArgument
           /\ Len(reqs[c]) = 1
           /\ Len(resps[c]) = 1
           /\ reqs[c][1].data8 = kSMCGetKeyInfo

C2_Witness ==
    \E c \in Callers :
        /\ fn[c] = "set_fan_min_rpm"
        /\ CallOk(c, 1)
        /\ result_smc[c].dataSize = 2
        /\ resps[c][1].out.dataSize = 4
        /\ result[c] = kIOReturnBadArgument

\* C3: the write-key request frame carries operation write key, the
\* reported dataSize and a payload equal to the caller-supplied value bytes
\* (the fpe2 bytes of rpm for set_fan_min_rpm).
C3_WriteFrameCarriesValue ==
    \A c \in Callers :
        \A i \in 1..Len(reqs[c]) :
            (fn[c] = "set_fan_min_rpm" /\ i = 2) =>
                /\ reqs[c][i].data8 = kSMCWriteKey
                /\ reqs[c][i].dataSize = resps[c][1].out.dataSize
                /\ reqs[c][i].bytes = to_fpe2(arg[c].rpm, ZeroBytes)

\* the read of caller c's transaction succeeded with this size and type tag
ReadGave(c, size, tag) ==
    /\ CallOk(c, 1) /\ CallOk(c, 2)
    /\ resps[c][1].out.dataSize = size
    /\ resps[c][1].out.dataType = to_uint32_t(tag)

\* C4: get_num_fans returns the first payload byte when the read of FNum
\* succeeds with dataSize 1 and type ui8, and -1 on any failure or mismatch.
C4_NumFansOrMinusOne ==
    \A c \in Callers :
        (pc[c] = "done" /\ fn[c] = "get_num_fans") =>
            IF ReadGave(c, 1, DATA_TYPE_UINT8)
            THEN ret[c] = resps[c][2].out.bytes[1]
            ELSE ret[c] = -1

\* C5: get_tmp returns zero in every unit on a failure at either layer of
\* either phase, a dataSize other than 2, or a type tag other than sp78
\* (stated for the well-formed, 4 character keys).
C5_TmpZeroOnError ==
    \A c \in Callers :
        (pc[c] = "done" /\ fn[c] = "get_tmp" /\ Len(arg[c].key) = 4
         /\ ~ReadGave(c, 2, DATA_TYPE_SP78))
        => ret[c] = 0

\* C6: for v in 0..16383 from_fpe2 of the bytes of to_fpe2(v) is v - (v mod 4).
C6_Fpe2RoundTrip ==
    (fpe2.step = "decoded" /\ fpe2.val <= 16383)
    => fpe2.ans = fpe2.val - (fpe2.val % 4)

\* the four characters packed with character 0 in the most significant byte
BigEndian(key) ==
    (key[1] * 16777216) + (key[2] * 65536) + (key[3] * 256) + key[4]

Printable(key) == \A i \in 1..Len(key) : key[i] >= 32 /\ key[i] <= 126

\* C7: for a key of 4 printable characters to_uint32_t packs big-endian,
\* to_string of that value gives back the 4 characters, and to_uint32_t of
\* that string gives back the value.
C7_KeyRoundTrip ==
    (Len(keyc.key) = 4 /\ Printable(keyc.key)) =>
        /\ keyc.step \in {"packed", "unpacked", "repacked"}
              => keyc.packed = BigEndian(keyc.key)
        /\ keyc.step \in {"unpacked", "repacked"} => keyc.str = keyc.key
        /\ keyc.step = "repacked" => keyc.repacked = keyc.packed

C7_Witness ==
    /\ keyc.step = "repacked"
    /\ keyc.key = <<70, 48, 97, 126>>
    /\ keyc.packed = 1177575806
    /\ keyc.repacked = 1177575806

\* C8: for a 4 character key is_key_valid returns true exactly when both
\* calls of the read were made and returned success at both layers; for a
\* key the controller reports as not found it returns false.
C8_KeyValidIffBothOk ==
    \A c \in Callers :
        (pc[c] = "done" /\ fn[c] = "is_key_valid" /\ Len(arg[c].key) = 4) =>
            /\ ret[c] = TRUE <=>
                  (Len(reqs[c]) = 2 /\ CallOk(c, 1) /\ CallOk(c, 2))
            /\ (\E i \in 1..Len(resps[c]) :
                   /\ resps[c][i].result = kIOReturnSuccess
                   /\ resps[c][i].out.result = kSMCKeyNotFound)
               => ret[c] = FALSE

C8_Witness ==
    \E c \in Callers :
        /\ pc[c] = "done" /\ fn[c] = "is_key_valid"
        /\ Len(arg[c].key) = 4
        /\ CallOk(c, 1) /\ CallOk(c, 2)
        /\ ret[c] = TRUE

\* C9: for a key whose length is not 4, is_key_valid and get_tmp report the
\* malformed key at once and issue no transport call.
C9_BadKeyNoTransaction ==
    \A c \in Callers :
        (fn[c] \in {"is_key_valid", "get_tmp"} /\ Len(arg[c].key) # 4) =>
            /\ pc[c] = "done"
            /\ printed[c]
            /\ reqs[c] = << >>

\* C10: set_fan_min_rpm returns true exactly when the write-key call was
\* issued and both calls returned success at both layers; any channel
\* failure, protocol failure or size mismatch gives false.
C10_SetFanTrueIffBothOk ==
    \A c \in Callers :
        (pc[c] = "done" /\ fn[c] = "set_fan_min_rpm") =>
            /\ ret[c] = TRUE <=>
                  (/\ Len(reqs[c]) = 2
                   /\ reqs[c][2].data8 = kSMCWriteKey
                   /\ CallOk(c, 1) /\ CallOk(c, 2))
            /\ (CallFailed(c, 1) \/ CallFailed(c, 2)
                \/ result[c] = kIOReturnBadArgument) => ret[c] = FALSE

C10_Witness ==
    \E c \in Callers :
        /\ pc[c] = "done" /\ fn[c] = "set_fan_min_rpm"
        /\ Len(reqs[c]) = 2
        /\ reqs[c][2].data8 = kSMCWriteKey
        /\ CallOk(c, 1) /\ CallOk(c, 2)
        /\ ret[c] = TRUE

\* C11: get_fan_rpm returns (byte0 << 6) + (byte1 << 2) of the payload when
\* the read of F0Ac succeeds with dataSize 2 and type fpe2 ([16, 0] gives
\* 1024), and 0 on a read failure, another dataSize or another type tag.
C11_FanRpmOrZero ==
    \A c \in Callers :
        (pc[c] = "done" /\ fn[c] = "get_fan_rpm") =>
            IF ReadGave(c, 2, DATA_TYPE_FPE2)
            THEN /\ ret[c] = (resps[c][2].out.bytes[1] * 64)
                               + (resps[c][2].out.bytes[2] * 4)
                 /\ (resps[c][2].out.bytes[1] = 16 /\ resps[c][2].out.bytes[2] = 0)
                       => ret[c] = 1024
            ELSE ret[c] = 0

C11_Witness ==
    \E c \in Callers :
        /\ pc[c] = "done" /\ fn[c] = "get_fan_rpm"
        /\ ReadGave(c, 2, DATA_TYPE_FPE2)
        /\ resps[c][2].out.bytes[1] = 200 /\ resps[c][2].out.bytes[2] = 3
        /\ ret[c] = 12812

\* callers 1 and 2 made the same call and got the same answers, except for
\* the response frames handed back with a non-success return code
SameRunButFailedFrames ==
    /\ pc[1] = "done" /\ pc[2] = "done"
    /\ fn[1] = fn[2] /\ arg[1] = arg[2]
    /\ Len(resps[1]) = Len(resps[2])
    /\ \A i \in 1..Len(resps[1]) :
          /\ resps[1][i].result = resps[2][i].result
          /\ resps[1][i].result = kIOReturnSuccess
                => resps[1][i].out = resps[2][i].out
    /\ \E i \in 1..Len(resps[1]) : resps[1][i].result # kIOReturnSuccess

\* C12: two runs that differ only in the response frame returned with a
\* non-success channel status report the same return code, kSMC, dataSize,
\* dataType and data.
C12_FailedFrameIgnored ==
    SameRunButFailedFrames =>
        /\ result[1] = result[2]
        /\ result_smc[1] = result_smc[2]

\* C13: for a successful 2 byte sp78 read with first byte c, get_tmp gives
\* c in Celsius, c * 1.8 + 32 in Fahrenheit and c + 273.15 in Kelvin
\* (hundredths: 50 gives 5000, 12200 and 32315).
C13_TmpUnits ==
    \A c \in Callers :
        (pc[c] = "done" /\ fn[c] = "get_tmp" /\ ReadGave(c, 2, DATA_TYPE_SP78)) =>
            LET b == resps[c][2].out.bytes[1]
            IN  /\ arg[c].unit = "CELSIUS" => ret[c] = 100 * b
                /\ arg[c].unit = "FAHRENHEIT" => ret[c] = (180 * b) + 3200
                /\ arg[c].unit = "KELVIN" => ret[c] = (100 * b) + 27315
                /\ b = 50 => ret[c] \in {5000, 12200, 32315}

C13_Witness ==
    \E c \in Callers :
        /\ pc[c] = "done" /\ fn[c] = "get_tmp"
        /\ ReadGave(c, 2, DATA_TYPE_SP78)
        /\ resps[c][2].out.bytes[1] = 50
        /\ arg[c].unit = "KELVIN"
        /\ ret[c] = 32315

\* C14: the second request of a read carries the key of the first,
\* operation read key and the dataSize of the get-key-info response; the
\* value returned has the dataSize and dataType of the get-key-info
\* response and the bytes of the read-key response.
C14_ReadSecondRequest ==
    \A c \in Callers :
        (fn[c] \in ReadFns /\ Len(reqs[c]) >= 2) =>
            /\ reqs[c][2].key = reqs[c][1].key
            /\ reqs[c][2].key = to_uint32_t(arg[c].key)
            /\ reqs[c][2].data8 = kSMCReadKey
            /\ reqs[c][2].dataSize = resps[c][1].out.dataSize
            /\ (pc[c] = "done" /\ CallOk(c, 1) /\ CallOk(c, 2)) =>
                  /\ result_smc[c].dataSize = resps[c][1].out.dataSize
                  /\ BigEndian(result_smc[c].dataType) = resps[c][1].out.dataType
                  /\ result_smc[c].data = resps[c][2].out.bytes

C14_Witness ==
    \E c \in Callers :
        /\ pc[c] = "done" /\ fn[c] = "get_tmp"
        /\ CallOk(c, 1) /\ CallOk(c, 2)
        /\ resps[c][1].out.dataSize = 4
        /\ reqs[c][2].dataSize = 4
        /\ result_smc[c].dataType = DATA_TYPE_UINT8
        /\ result_smc[c].data[1] = 200

\* the shape of every transaction: one get-key-info call, then at most one
\* data call, nothing after a failed call and nothing after the data call
TwoCallsAtMost ==
    \A c \in Callers :
        /\ Len(reqs[c]) <= 2
        /\ Len(resps[c]) <= Len(reqs[c])
        /\ Len(reqs[c]) >= 1 => reqs[c][1].data8 = kSMCGetKeyInfo
        /\ Len(reqs[c]) = 2 =>
              reqs[c][2].data8 = (IF fn[c] \in ReadFns THEN kSMCReadKey
                                                       ELSE kSMCWriteKey)
        /\ CallFailed(c, 1) => (pc[c] = "done" /\ Len(reqs[c]) = 1)
        /\ Len(resps[c]) = 2 => pc[c] = "done"
        /\ pc[c] = "done" => Len(resps[c]) = Len(reqs[c])

\* C15: a read or write transaction ends after at most two transport calls
\* (one get-key-info, then at most one data call, none repeated, none after
\* a failed phase, write-key last), provided each transport call returns.
C15_EndsAfterTwoCalls ==
    /\ []TwoCallsAtMost
    /\ (pc[1] \in {"info", "data"}) ~> (pc[1] = "done")

C15_Witness ==
    /\ pc[1] = "done" /\ fn[1] = "set_fan_min_rpm"
    /\ Len(reqs[1]) = 2 /\ Len(resps[1]) = 2
    /\ reqs[1][2].data8 = kSMCWriteKey
    /\ CallFailed(1, 2)

InFlight(c) == pc[c] \in {"info", "data"}

\* C16: with two callers access is serialized: one transaction's calls both
\* complete before the other transaction's first transport call is issued.
C16_Serialized ==
    \A c \in Callers : \A d \in Callers :
        (c # d) => ~(InFlight(c) /\ InFlight(d))

C18_TmpSignedByte ==
    \A c \in Callers :
        (pc[c] = "done" /\ fn[c] = "get_tmp" /\ arg[c].unit = "CELSIUS"
         /\ ReadGave(c, 2, DATA_TYPE_SP78)) =>
            LET b == resps[c][2].out.bytes[1]
            IN  ret[c] = 100 * (IF b >= 128 THEN b - 256 ELSE b)

\* C19: after a read_smc that did not succeed at both layers in both phases
\* the returned data is all zero; after a failed metadata phase dataSize is
\* 0 and dataType empty; after a failed read-key phase dataSize and dataType
\* are those of the get-key-info response.
C19_FailedReadResult ==
    \A c \in Callers :
        (pc[c] = "done" /\ fn[c] \in ReadFns /\ Len(reqs[c]) >= 1
         /\ ~(CallOk(c, 1) /\ CallOk(c, 2))) =>
            /\ result_smc[c].data = ZeroBytes
            /\ CallFailed(c, 1) =>
                  (result_smc[c].dataSize = 0 /\ CStr(result_smc[c].dataType) = << >>)
            /\ (CallOk(c, 1) /\ CallFailed(c, 2)) =>
                  /\ result_smc[c].dataSize = resps[c][1].out.dataSize
                  /\ BigEndian(result_smc[c].dataType) = resps[c][1].out.dataType

C19_Witness ==
    \E c \in Callers :
        /\ pc[c] = "done" /\ fn[c] = "get_num_fans"
        /\ CallOk(c, 1) /\ CallFailed(c, 2)
        /\ result[c] = kIOReturnSuccess
        /\ resps[c][2].out.bytes[1] = 200
        /\ result_smc[c].dataSize = 1
        /\ result_smc[c].dataType = DATA_TYPE_UINT8
        /\ result_smc[c].data = ZeroBytes

\* C20: the bytes to_fpe2 produces depend only on rpm mod 16384: for
\* rpm >= 16384 they are the bytes of rpm reduced into 0..16383.
C20_Fpe2Mod16384 ==
    (fpe2.step \in {"encoded", "decoded"} /\ fpe2.val >= 16384) =>
        /\ fpe2.data = to_fpe2(fpe2.val % 16384, ZeroBytes)
        /\ fpe2.data[1] = (fpe2.val % 16384) \div 64
        /\ fpe2.data[2] = (fpe2.val % 64) * 4

C20_Witness ==
    /\ fpe2.step = "encoded"
    /\ fpe2.val = 16384 + 16384 + 100
    /\ fpe2.data[1] = 1
    /\ fpe2.data[2] = 144

====
